---- MODULE Spec2Model ----
(***************************************************************************)
(* A model of the crypto market-data server: the TTL cache of              *)
(* data_cacher.py (DataCacher) and the request handlers of                 *)
(* crypto_data_server.py that share the process-wide instance CACHE.       *)
(*                                                                         *)
(* Python strings are sequences of one-character strings, so that          *)
(* str.upper() and the f-string key derivations are computed, not assumed. *)
(* Python values held by the cache are records tagged with their type.     *)
(*                                                                         *)
(* The clock is the wall clock: every get and set samples it on its own,   *)
(* and nothing orders two samples (time.time() can be set back), so a      *)
(* sample is any element of the instants explored.                         *)
(***************************************************************************)
EXTENDS Integers, Sequences, FiniteSets, TLC

VARIABLES
    cache,   \* DataCacher._cache: key -> <<timestamp_ms, ttl_ms, data>>
    last,    \* the latest direct call of the DataCacher API and what it returned
    tomb,    \* key -> expiry of the entry a get evicted (history; -1: none)
    route,   \* the data endpoint the requests of this run address
    x_api_key, \* the X-API-Key header the requests of this run carry
    req      \* the requests being served: request id -> its handler's state

vars == <<cache, last, tomb, route, x_api_key, req>>

----------------------------------------------------------------------------
(* Bounds of the model *)

\* how many milliseconds before the default expiry the clock values reach:
\* 5000 - MaxSkew .. 5000
MaxSkew == 0

\* number of requests that can be in flight together
MaxRequests == 2

----------------------------------------------------------------------------
(* Python values *)

None == [t |-> "None"]

\* an int passed as ttl
Seconds(n) == [t |-> "int", n |-> n]

\* mutant: whatever is not None counts as a hit
TruthyWhenPresent(v) == v # None

\* bool(x) of the values the program stores: None and an empty dict are falsy,
\* a pydantic model instance is truthy
Truthy(v) ==
    CASE v.t = "None" -> FALSE
      [] v.t = "dict" -> v.keys # {}
      [] OTHER -> TRUE

\* str.upper() on one character; characters without case are unchanged
UpperChar(ch) ==
    CASE ch = "b" -> "B" [] ch = "t" -> "T" [] ch = "c" -> "C"
      [] ch = "u" -> "U" [] ch = "s" -> "S" [] ch = "d" -> "D"
      [] ch = "x" -> "X" [] ch = "y" -> "Y"
      [] OTHER -> ch

\* mutant: the symbol is used as given
UpperIdentity(s) == s

\* str.upper()
Upper(s) == [i \in 1..Len(s) |-> UpperChar(s[i])]

DigitChar(d) == <<"0", "1", "2", "3", "4", "5", "6", "7", "8", "9">>[d + 1]

RECURSIVE NatToStr(_)
NatToStr(n) ==
    IF n < 10 THEN <<DigitChar(n)>>
    ELSE NatToStr(n \div 10) \o <<DigitChar(n % 10)>>

\* str(n) of an int, as the f-string formats {limit}
IntToStr(n) == IF n < 0 THEN <<"-">> \o NatToStr(-n) ELSE NatToStr(n)

----------------------------------------------------------------------------
(* data_cacher.py *)

DEFAULT_TTL_SECONDS == 5

\* DataCacher.__init__: default_ttl_ms = default_ttl * 1000
default_ttl_ms == DEFAULT_TTL_SECONDS * 1000

\* the empty dict of DataCacher.__init__
EmptyCache == [k \in {} |-> None]

\* dict item deletion: del d[key] raises KeyError when key is missing
DictDel(d, key) ==
    IF key \in DOMAIN d
    THEN [cache |-> [k \in DOMAIN d \ {key} |-> d[k]], exc |-> "none"]
    ELSE [cache |-> d, exc |-> "KeyError"]

\* mutant: an existing entry is kept (dict.setdefault)
DictSetKeepsOld(d, key, entry) ==
    [k \in DOMAIN d \cup {key} |-> IF k \in DOMAIN d THEN d[k] ELSE entry]

\* dict item assignment: d[key] = entry inserts or replaces
DictSet(d, key, entry) ==
    [k \in DOMAIN d \cup {key} |-> IF k = key THEN entry ELSE d[k]]

\* mutant: an entry is still served at its expiry instant
IsLiveAtExpiry(entry, current_time) == current_time <= entry[1] + entry[2]

\* the expiry test of DataCacher.get: current_time < timestamp + ttl_ms
IsLive(entry, current_time) == current_time < entry[1] + entry[2]

\* mutant: the expired entry is deleted without the membership test
CacheGetDeletesUnchecked(c, key, current_time) ==
    IF key \in DOMAIN c /\ IsLive(c[key], current_time)
    THEN [ret |-> c[key][3], cache |-> c, exc |-> "none"]
    ELSE [ret |-> None, cache |-> DictDel(c, key).cache,
          exc |-> DictDel(c, key).exc]

\* mutant: a get also sweeps every other expired entry out of the dict
CacheGetSweeps(c, key, current_time) ==
    LET kept == {k \in DOMAIN c : IsLive(c[k], current_time)} IN
    [ret |-> IF key \in kept THEN c[key][3] ELSE None,
     cache |-> [k \in kept |-> c[k]], exc |-> "none"]

\* DataCacher.get, with current_time the value _get_current_time_ms returns:
\* the value returned, the dict afterwards, the exception raised
CacheGet(c, key, current_time) ==
    IF key \in DOMAIN c
    THEN IF IsLive(c[key], current_time)
         THEN [ret |-> c[key][3], cache |-> c, exc |-> "none"]
         ELSE [ret |-> None, cache |-> DictDel(c, key).cache,
               exc |-> DictDel(c, key).exc]
    ELSE [ret |-> None, cache |-> c, exc |-> "none"]

\* mutant: the ttl is tested for truthiness (`if ttl`), so 0 means default
TtlMsFalsy(ttl) ==
    IF ttl = None THEN default_ttl_ms
    ELSE IF ttl.n = 0 THEN default_ttl_ms ELSE ttl.n * 1000

\* the ttl_ms computed by DataCacher.set; ttl is None or a number of seconds
TtlMs(ttl) == IF ttl # None THEN ttl.n * 1000 ELSE default_ttl_ms

\* DataCacher.set, with timestamp the value _get_current_time_ms returns
CacheSet(c, key, data, ttl, timestamp) ==
    [cache |-> DictSet(c, key, <<timestamp, TtlMs(ttl), data>>),
     exc |-> "none"]

\* mutant: clear leaves the entries where they are
CacheClearKeeps(c) == [cache |-> c, exc |-> "none"]

\* DataCacher.clear
CacheClear(c) == [cache |-> EmptyCache, exc |-> "none"]

----------------------------------------------------------------------------
(* Strings of crypto_data_server.py *)

EXCHANGE_ID == <<"b", "i", "n", "a", "n", "c", "e">>

\* get_exchange_markets: cache_key = f"{exchange.id}_markets"
MarketsKey(exchange_id) ==
    exchange_id \o <<"_", "m", "a", "r", "k", "e", "t", "s">>

\* get_realtime_price: cache_key = f"ticker:{symbol}"
TickerKey(symbol) == <<"t", "i", "c", "k", "e", "r", ":">> \o symbol

\* mutant: the limit is left out of the key
OhlcvKeyNoLimit(symbol, timeframe, limit) ==
    <<"o", "h", "l", "c", "v", ":">> \o symbol \o <<":">> \o timeframe

\* get_historical_data: cache_key = f"ohlcv:{symbol}:{timeframe}:{limit}"
OhlcvKey(symbol, timeframe, limit) ==
    <<"o", "h", "l", "c", "v", ":">> \o symbol \o <<":">> \o timeframe
        \o <<":">> \o IntToStr(limit)

\* TickerResponse(symbol=ticker['symbol'], price=ticker['last'],
\*                timestamp_ms=ticker['timestamp'], source_exchange=EXCHANGE_ID)
TickerResponse(ticker) ==
    [t |-> "TickerResponse", symbol |-> ticker.symbol, price |-> ticker.last,
     timestamp_ms |-> ticker.timestamp, source_exchange |-> EXCHANGE_ID]

----------------------------------------------------------------------------
(* The environment: the clock, the exchange's data *)

BTC_USDT == <<"B", "T", "C", "/", "U", "S", "D", "T">>
btc_usdt == <<"b", "t", "c", "/", "u", "s", "d", "t">>
XXX_YYY  == <<"X", "X", "X", "/", "Y", "Y", "Y">>

\* the values _get_current_time_ms can return: the start, the 5 s TTL after
\* it (and the milliseconds just before it) and the 3600 s TTL after it
TimePoints ==
    {0, 3600000} \cup {DEFAULT_TTL_SECONDS * 1000 - d : d \in 0..MaxSkew}

\* what fetch_ticker can return for a symbol: the price moves between calls
Tickers(symbol) ==
    {[symbol |-> symbol, last |-> p, timestamp |-> 1000 + p] : p \in {1, 2}}

\* how a key stands for a get that samples current_time
Found(c, key, current_time) ==
    IF key \notin DOMAIN c THEN "absent"
    ELSE IF current_time < c[key][1] + c[key][2] THEN "live" ELSE "expired"

----------------------------------------------------------------------------
(* The DataCacher API called directly: get, set and clear on any key, with  *)
(* any ttl, at any clock value.                                            *)

ApiKeys == {TickerKey(BTC_USDT), MarketsKey(EXCHANGE_ID)}

ApiValues == {TickerResponse(tk) : tk \in Tickers(BTC_USDT)}

\* ttl omitted, ttl=0, ttl=5
ApiTtls == {None, Seconds(0), Seconds(5)}

\* the clock values sampled by direct calls: around the start and the 5 s TTL
ApiTimePoints == {tp \in TimePoints : tp < 3600000}

\* a record of one direct call: its arguments, the clock value it sampled
\* (at), what it returned, how it found the key; for a set the <<ttl_ms,
\* data>> it replaced (<<>>: the key was not stored); a get that directly
\* follows a set of the same key carries that set's data, ttl, prior and
\* clock value (set_at); a clear that directly follows a set carries that
\* set's key, data, ttl and clock value, and so does the get of that key
\* that directly follows the clear (cleared)
NoCall == [op |-> "none", key |-> <<>>, data |-> None, ttl |-> None, at |-> -1,
           set_at |-> -1, ret |-> None, found |-> "none", prior |-> <<>>,
           cleared |-> FALSE, exc |-> "none"]

NoTombs == [k \in ApiKeys |-> -1]

Idle == [pc |-> "idle"]

Init ==
    /\ cache = EmptyCache
    /\ last = NoCall
    /\ tomb = NoTombs
    /\ route \in {"realtime", "historical"}
    /\ x_api_key = None
    /\ req = [r \in 1..MaxRequests |-> Idle]

\* no response is waiting to be sent
NoneDone == \A r \in 1..MaxRequests : req[r].pc # "done"

ApiGet ==
    \E key \in ApiKeys, current_time \in ApiTimePoints :
        LET res == CacheGet(cache, key, current_time)
            follows == last.op = "set" /\ last.key = key
            cleared == last.op = "clear" /\ last.key = key
        IN
        /\ cache' = res.cache
        /\ last' = [op |-> "get", key |-> key,
                    data |-> IF follows \/ cleared THEN last.data ELSE None,
                    ttl |-> IF follows \/ cleared THEN last.ttl ELSE None,
                    at |-> current_time,
                    set_at |-> IF follows THEN last.at
                               ELSE IF cleared THEN last.set_at ELSE -1,
                    ret |-> res.ret,
                    found |-> Found(cache, key, current_time),
                    prior |-> IF follows THEN last.prior ELSE <<>>,
                    cleared |-> cleared,
                    exc |-> res.exc]
        /\ tomb' = IF Found(cache, key, current_time) = "expired"
                   THEN [tomb EXCEPT ![key] = cache[key][1] + cache[key][2]]
                   ELSE tomb
        /\ UNCHANGED <<route, x_api_key, req>>

ApiSet ==
    \E key \in ApiKeys, data \in ApiValues, ttl \in ApiTtls,
       timestamp \in ApiTimePoints :
        LET res == CacheSet(cache, key, data, ttl, timestamp) IN
        /\ cache' = res.cache
        /\ last' = [op |-> "set", key |-> key, data |-> data, ttl |-> ttl,
                    at |-> timestamp, set_at |-> -1, ret |-> None,
                    found |-> Found(cache, key, timestamp),
                    prior |-> IF key \in DOMAIN cache
                              THEN <<cache[key][2], cache[key][3]>> ELSE <<>>,
                    cleared |-> FALSE,
                    exc |-> res.exc]
        /\ tomb' = [tomb EXCEPT ![key] = -1]
        /\ UNCHANGED <<route, x_api_key, req>>

\* CACHE.clear(), as the tests call it
ApiClear ==
    LET res == CacheClear(cache) IN
    /\ NoneDone
    /\ cache' = res.cache
    /\ last' = IF last.op = "set"
               THEN [NoCall EXCEPT !.op = "clear", !.key = last.key,
                                   !.data = last.data, !.ttl = last.ttl,
                                   !.set_at = last.at, !.exc = res.exc]
               ELSE [NoCall EXCEPT !.op = "clear", !.exc = res.exc]
    /\ UNCHANGED <<tomb, route, x_api_key, req>>

NextCache == ApiGet \/ ApiSet \/ ApiClear

SpecCache == Init /\ [][NextCache]_vars

----------------------------------------------------------------------------
(* The exchange (ccxt) as the handlers see it *)

\* load_markets() returns a dict keyed by symbol; it can be empty
LoadMarketsResults ==
    {[t |-> "dict", keys |-> {BTC_USDT}], [t |-> "dict", keys |-> {}]}

\* exchange.timeframes (its keys)
ExchangeTimeframes == {<<"1", "m">>, <<"1", "h">>}

\* one row of fetch_ohlcv: [timestamp_ms, open, high, low, close, volume]
Candle(i) == <<60000 * i, 10 + i, 12 + i, 9 + i, 11 + i, 100 + i>>

\* what fetch_ohlcv can return: no candle, one, two
OhlcvResults == {<<>>, <<Candle(1)>>, <<Candle(1), Candle(2)>>}

\* exceptions: a class and the args tuple that e.args[0] indexes
Exc(class, args) == [class |-> class, args |-> args]

\* what an awaited exchange call can raise: a ccxt.ExchangeError with or
\* without a message, any other Exception, or the task's cancellation
UpstreamErrors ==
    {Exc("ExchangeError", <<"m">>), Exc("ExchangeError", <<>>),
     Exc("Exception", <<"m">>), Exc("CancelledError", <<>>)}

\* isinstance(e, ccxt.ExchangeError)
IsExchangeError(e) == e.class = "ExchangeError"

\* isinstance(e, Exception): asyncio.CancelledError derives from
\* BaseException only; fastapi.HTTPException derives from Exception
IsException(e) ==
    e.class \in {"ExchangeError", "Exception", "HTTPException", "IndexError",
                 "KeyError"}

\* raise HTTPException(status_code=..., detail=...)
HTTPException(status_code, detail) ==
    [class |-> "HTTPException", args |-> <<>>, status_code |-> status_code,
     detail |-> detail]

----------------------------------------------------------------------------
(* Requests *)

\* the arguments an endpoint function can be called with: the symbol of the
\* path, and for /historical the timeframe and limit of the query string
Inputs ==
    {[kind |-> "realtime", symbol |-> s, timeframe |-> <<>>, limit |-> 0] :
        s \in {btc_usdt, XXX_YYY}}
    \cup
    {[kind |-> "historical", symbol |-> s, timeframe |-> <<"1", "h">>,
      limit |-> 2] : s \in {BTC_USDT, btc_usdt}}
    \cup
    {[kind |-> "historical", symbol |-> BTC_USDT,
      timeframe |-> <<"1", "w", "0", "0">>, limit |-> 2]}

\* the arguments of a request of route kind whose endpoint function has not
\* been called yet: get_exchange_markets runs first and takes none of them
Unbound(kind) ==
    [kind |-> kind, symbol |-> <<>>, timeframe |-> <<>>, limit |-> 0]

\* a request of route kind that has just arrived, and what the run records
\* about it: whether it called fetch_ticker/fetch_ohlcv (fetched), how its
\* lookup of cache_key went (lookup: hit or miss by the truthiness of what
\* get returned; found: whether the key held a live entry at the clock value
\* the get sampled, or none: gone), what the exchange answered (up), and its
\* response (status, detail, body); while get_exchange_markets awaits
\* load_markets, its local `markets` (dep_markets: what CACHE.get returned);
\* for a request that stored, the clock value its set sampled (stored_at)
\* and whether the set replaced an entry, with the same or other data
Arrived(kind) ==
    [pc |-> "arrived", arg |-> Unbound(kind), symbol |-> <<>>,
     cache_key |-> <<>>, fetched |-> FALSE, lookup |-> "none",
     found |-> "none", up |-> "none", status |-> 0, detail |-> "",
     body |-> None, exc |-> "none", dep_markets |-> None,
     stored_at |-> -1, replaced |-> "none"]

\* the endpoint function is called with arg
Entered(q, arg) == [q EXCEPT !.pc = "entered", !.arg = arg,
                            !.symbol = arg.symbol]

\* the response of a handler that returned body (status_code 200)
Return(q, body) ==
    [q EXCEPT !.pc = "done", !.status = 200, !.body = body]

\* the response to an exception that leaves the handler: an HTTPException
\* becomes its status and detail, any other Exception the framework's 500,
\* and a cancellation ends the request without a response
Propagate(q, e) ==
    IF e.class = "HTTPException"
    THEN [q EXCEPT !.pc = "done", !.status = e.status_code,
                   !.detail = e.detail]
    ELSE IF IsException(e)
    THEN [q EXCEPT !.pc = "done", !.status = 500, !.detail = "unhandled",
                   !.exc = e.class]
    ELSE [q EXCEPT !.pc = "done", !.detail = "cancelled"]

\* what a set of data under key replaces in dict c
Replaced(c, key, data) ==
    IF key \notin DOMAIN c THEN "none"
    ELSE IF c[key][3] = data THEN "same" ELSE "other"

\* the request has stored data under its key in dict c at clock value
\* timestamp
Stored(q, c, data, timestamp) ==
    [q EXCEPT !.stored_at = timestamp,
              !.replaced = Replaced(c, q.cache_key, data)]

\* validate_symbol: the uppercased symbol, or the HTTPException raised
validate_symbol(symbol, markets) ==
    LET upper == Upper(symbol) IN
    IF upper \notin markets.keys
    THEN [raised |-> TRUE, symbol |-> upper,
          exc |-> HTTPException(404, "symbol not found")]
    ELSE [raised |-> FALSE, symbol |-> upper, exc |-> None]

\* mutant: the handler fetches whatever the cache returned
AfterLookup_Refetches(q, c, cache_key, current_time, awaiting) ==
    LET got == CacheGet(c, cache_key, current_time) IN
    [req |-> [q EXCEPT !.cache_key = cache_key, !.pc = awaiting,
                       !.found = IF Found(c, cache_key, current_time) = "live"
                                 THEN "live" ELSE "gone",
                       !.lookup = "miss", !.fetched = TRUE],
     cache |-> got.cache]

\* the handler after cached_data = CACHE.get(cache_key): `if cached_data:
\* return cached_data`, else on to the await of the exchange call
AfterLookup(q, c, cache_key, current_time, awaiting) ==
    LET got == CacheGet(c, cache_key, current_time)
        q1 == [q EXCEPT !.cache_key = cache_key,
                        !.found = IF Found(c, cache_key, current_time) = "live"
                                  THEN "live" ELSE "gone"]
    IN
    IF got.exc # "none"
    THEN [req |-> Propagate(q1, Exc(got.exc, <<"k">>)), cache |-> got.cache]
    ELSE IF Truthy(got.ret)
    THEN [req |-> Return([q1 EXCEPT !.lookup = "hit"], got.ret),
          cache |-> got.cache]
    ELSE [req |-> [q1 EXCEPT !.pc = awaiting, !.lookup = "miss",
                             !.fetched = TRUE],
          cache |-> got.cache]

\* get_realtime_price from its first line to its return, its raise or its
\* await of exchange.fetch_ticker
get_realtime_price(q, markets, c, current_time) ==
    LET v == validate_symbol(q.symbol, markets) IN
    IF v.raised THEN [req |-> Propagate(q, v.exc), cache |-> c]
    ELSE AfterLookup([q EXCEPT !.symbol = v.symbol], c, TickerKey(v.symbol),
                     current_time, "fetch_ticker")

\* mutant: the cache is consulted before the timeframe is validated
get_historical_data_LookupFirst(q, markets, c, current_time) ==
    LET v == validate_symbol(q.symbol, markets)
        after == AfterLookup([q EXCEPT !.symbol = v.symbol], c,
                             OhlcvKey(v.symbol, q.arg.timeframe, q.arg.limit),
                             current_time, "fetch_ohlcv")
    IN
    IF v.raised THEN [req |-> Propagate(q, v.exc), cache |-> c]
    ELSE IF q.arg.timeframe \notin ExchangeTimeframes
    THEN [req |-> Propagate([after.req EXCEPT !.body = None],
                            HTTPException(400, "invalid timeframe")),
          cache |-> after.cache]
    ELSE after

\* get_historical_data from its first line to its return, its raise or its
\* await of exchange.fetch_ohlcv
get_historical_data(q, markets, c, current_time) ==
    LET v == validate_symbol(q.symbol, markets) IN
    IF v.raised THEN [req |-> Propagate(q, v.exc), cache |-> c]
    ELSE IF q.arg.timeframe \notin ExchangeTimeframes
    THEN [req |-> Propagate([q EXCEPT !.symbol = v.symbol],
                            HTTPException(400, "invalid timeframe")),
          cache |-> c]
    ELSE AfterLookup([q EXCEPT !.symbol = v.symbol], c,
                     OhlcvKey(v.symbol, q.arg.timeframe, q.arg.limit),
                     current_time, "fetch_ohlcv")

\* the endpoint function of the route, called with arg once the markets
\* dependency is resolved
Endpoint(q, arg, markets, c, current_time) ==
    IF arg.kind = "realtime"
    THEN get_realtime_price(Entered(q, arg), markets, c, current_time)
    ELSE get_historical_data(Entered(q, arg), markets, c, current_time)

\* get_exchange_markets up to its await of exchange.load_markets (its get
\* samples t1), and the endpoint function after it when the cached markets
\* are truthy (its get samples t2)
get_exchange_markets(q, arg, c, t1, t2) ==
    LET got == CacheGet(c, MarketsKey(EXCHANGE_ID), t1) IN
    IF got.exc # "none"
    THEN [req |-> Propagate(q, Exc(got.exc, <<"k">>)), cache |-> got.cache]
    ELSE IF ~Truthy(got.ret)
    THEN [req |-> [q EXCEPT !.pc = "load_markets", !.dep_markets = got.ret],
          cache |-> got.cache]
    ELSE Endpoint(q, arg, got.ret, got.cache, t2)

\* get_exchange_markets after load_markets returned markets: the set (it
\* samples t1), the return, and the endpoint function (its get samples t2)
load_markets_returned(q, arg, markets, c, t1, t2) ==
    LET set == CacheSet(c, MarketsKey(EXCHANGE_ID), markets, Seconds(60 * 60),
                        t1)
    IN Endpoint([q EXCEPT !.dep_markets = None], arg, markets, set.cache, t2)

\* mutant: a failed load of the markets answers 500
load_markets_raised_500(q, e) ==
    IF IsException(e)
    THEN Propagate(q, HTTPException(500, "failed to load markets"))
    ELSE Propagate(q, e)

\* get_exchange_markets after load_markets raised e: `except Exception`
load_markets_raised(q, e) ==
    IF IsException(e)
    THEN Propagate(q, HTTPException(503, "failed to load markets"))
    ELSE Propagate(q, e)

\* mutant: a failed fetch_ticker is tried again
realtime_except_Retries(q, e) ==
    IF IsException(e) THEN [q EXCEPT !.pc = "fetch_ticker"]
    ELSE Propagate(q, e)

\* the except clauses of get_realtime_price, for e raised in its try block;
\* e.args[0] raises IndexError on an exception without args
realtime_except(q, e) ==
    IF IsExchangeError(e)
    THEN IF e.args = <<>>
         THEN Propagate(q, Exc("IndexError", <<"m">>))
         ELSE Propagate(q, HTTPException(400, "exchange error"))
    ELSE IF IsException(e)
    THEN Propagate(q, HTTPException(500, "internal server error"))
    ELSE Propagate(q, e)

\* mutant: the record is stored only when the key holds no entry
fetch_ticker_returned_FirstWins(q, ticker, c, timestamp) ==
    LET response_data == TickerResponse(ticker)
        set == CacheSet(c, q.cache_key, response_data, None, timestamp)
    IN [req |-> Return(Stored(q, c, response_data, timestamp), response_data),
        cache |-> IF q.cache_key \in DOMAIN c THEN c ELSE set.cache]

\* get_realtime_price after fetch_ticker returned ticker
fetch_ticker_returned(q, ticker, c, timestamp) ==
    LET response_data == TickerResponse(ticker)
        set == CacheSet(c, q.cache_key, response_data, None, timestamp)
    IN [req |-> Return(Stored(q, c, response_data, timestamp), response_data),
        cache |-> set.cache]

\* OHLCVDataPoint(...) for point in ohlcv
DataPoints(ohlcv) ==
    [i \in 1..Len(ohlcv) |->
        [timestamp_ms |-> ohlcv[i][1], open |-> ohlcv[i][2],
         high |-> ohlcv[i][3], low |-> ohlcv[i][4], close |-> ohlcv[i][5],
         volume |-> ohlcv[i][6]]]

\* HistoricalResponse(symbol=..., timeframe=..., data=..., count=len(...))
HistoricalResponse(symbol, timeframe, data_points) ==
    [t |-> "HistoricalResponse", symbol |-> symbol, timeframe |-> timeframe,
     data |-> data_points, source_exchange |-> EXCHANGE_ID,
     count |-> Len(data_points)]

\* the except clauses of get_historical_data, for e raised in its try block
historical_except(q, e) ==
    IF IsExchangeError(e)
    THEN IF e.args = <<>>
         THEN Propagate(q, Exc("IndexError", <<"m">>))
         ELSE Propagate(q, HTTPException(400, "exchange error"))
    ELSE IF IsException(e)
    THEN Propagate(q, HTTPException(500, "processing error"))
    ELSE Propagate(q, e)

\* mutant: zero candles are stored and returned like any other answer
fetch_ohlcv_returned_StoresEmpty(q, ohlcv, c, timestamp) ==
    LET response_data ==
            HistoricalResponse(q.symbol, q.arg.timeframe, DataPoints(ohlcv))
        set == CacheSet(c, q.cache_key, response_data, Seconds(60 * 60),
                        timestamp)
    IN [req |-> Return(Stored(q, c, response_data, timestamp),
                       response_data),
        cache |-> set.cache]

\* mutant: the historical record is stored under the default ttl
fetch_ohlcv_returned_DefaultTtl(q, ohlcv, c, timestamp) ==
    LET response_data ==
            HistoricalResponse(q.symbol, q.arg.timeframe, DataPoints(ohlcv))
        set == CacheSet(c, q.cache_key, response_data, None, timestamp)
    IN IF ohlcv = <<>>
       THEN [req |-> historical_except(q, HTTPException(404, "no data")),
             cache |-> c]
       ELSE [req |-> Return(Stored(q, c, response_data, timestamp),
                       response_data),
        cache |-> set.cache]

\* get_historical_data after fetch_ohlcv returned ohlcv: the rest of the try
\* block, whose `raise HTTPException(404)` its own except clauses catch
fetch_ohlcv_returned(q, ohlcv, c, timestamp) ==
    IF ohlcv = <<>>
    THEN [req |-> historical_except(q, HTTPException(404, "no data")),
          cache |-> c]
    ELSE LET response_data ==
                 HistoricalResponse(q.symbol, q.arg.timeframe,
                                    DataPoints(ohlcv))
             set == CacheSet(c, q.cache_key, response_data, Seconds(60 * 60),
                             timestamp)
         IN [req |-> Return(Stored(q, c, response_data, timestamp),
                       response_data),
        cache |-> set.cache]

----------------------------------------------------------------------------
(* The server: requests interleave at their awaits.  A finished request    *)
(* takes no further step and nothing reads it, so its response is sent     *)
(* (Finish) before anything else moves: every state with pc = "done" shows *)
(* the cache exactly as the request's last step left it.                   *)

Requests == 1..MaxRequests

\* a request arrives and runs to its first await, its return or its raise;
\* the lowest idle slot takes it
Start(r) ==
    /\ NoneDone
    /\ req[r].pc = "idle"
    /\ \A o \in 1..(r - 1) : req[o].pc # "idle"
    /\ \E arg \in {i \in Inputs : i.kind = route} :
        \E res \in {get_exchange_markets(Arrived(route), arg, cache, t1, t2) :
                        t1 \in TimePoints, t2 \in TimePoints} :
            /\ req' = [req EXCEPT ![r] = res.req]
            /\ cache' = res.cache
    /\ UNCHANGED <<last, tomb, route, x_api_key>>

\* exchange.load_markets() returns
LoadMarketsReturns(r) ==
    /\ NoneDone
    /\ req[r].pc = "load_markets"
    /\ \E markets \in LoadMarketsResults,
          arg \in {i \in Inputs : i.kind = route} :
        \E res \in {load_markets_returned(req[r], arg, markets, cache, t1,
                                           t2) :
                        t1 \in TimePoints, t2 \in TimePoints} :
            /\ req' = [req EXCEPT ![r] = res.req]
            /\ cache' = res.cache
    /\ UNCHANGED <<last, tomb, route, x_api_key>>

\* exchange.load_markets() raises, or the request is cancelled while awaiting
LoadMarketsRaises(r) ==
    /\ NoneDone
    /\ req[r].pc = "load_markets"
    /\ \E e \in UpstreamErrors :
        req' = [req EXCEPT ![r] = load_markets_raised(req[r], e)]
    /\ UNCHANGED <<cache, last, tomb, route, x_api_key>>

\* exchange.fetch_ticker(symbol) returns
FetchTickerReturns(r) ==
    /\ NoneDone
    /\ req[r].pc = "fetch_ticker"
    /\ \E ticker \in Tickers(req[r].symbol), timestamp \in TimePoints :
        LET res == fetch_ticker_returned([req[r] EXCEPT !.up = "ticker"],
                                         ticker, cache, timestamp) IN
        /\ req' = [req EXCEPT ![r] = res.req]
        /\ cache' = res.cache
    /\ UNCHANGED <<last, tomb, route, x_api_key>>

\* mutant: the request that fails leaves an entry under its key
FetchTickerRaises_Stores(r) ==
    /\ NoneDone
    /\ req[r].pc = "fetch_ticker"
    /\ \E e \in UpstreamErrors, timestamp \in TimePoints :
        /\ req' = [req EXCEPT
                     ![r] = realtime_except([req[r] EXCEPT !.up = e.class], e)]
        /\ cache' = CacheSet(cache, req[r].cache_key, None, None,
                             timestamp).cache
    /\ UNCHANGED <<last, tomb, route, x_api_key>>

\* exchange.fetch_ticker(symbol) raises, or the request is cancelled
FetchTickerRaises(r) ==
    /\ NoneDone
    /\ req[r].pc = "fetch_ticker"
    /\ \E e \in UpstreamErrors :
        req' = [req EXCEPT
                  ![r] = realtime_except([req[r] EXCEPT !.up = e.class], e)]
    /\ UNCHANGED <<cache, last, tomb, route, x_api_key>>

\* exchange.fetch_ohlcv(symbol, timeframe, limit=limit) returns
FetchOhlcvReturns(r) ==
    /\ NoneDone
    /\ req[r].pc = "fetch_ohlcv"
    /\ \E ohlcv \in OhlcvResults, timestamp \in TimePoints :
        LET up == IF ohlcv = <<>> THEN "no candles" ELSE "candles"
            res == fetch_ohlcv_returned([req[r] EXCEPT !.up = up],
                                        ohlcv, cache, timestamp) IN
        /\ req' = [req EXCEPT ![r] = res.req]
        /\ cache' = res.cache
    /\ UNCHANGED <<last, tomb, route, x_api_key>>

\* exchange.fetch_ohlcv(...) raises, or the request is cancelled
FetchOhlcvRaises(r) ==
    /\ NoneDone
    /\ req[r].pc = "fetch_ohlcv"
    /\ \E e \in UpstreamErrors :
        req' = [req EXCEPT
                  ![r] = historical_except([req[r] EXCEPT !.up = e.class], e)]
    /\ UNCHANGED <<cache, last, tomb, route, x_api_key>>

\* the response has been sent; the slot can take the next request
Finish(r) ==
    /\ req[r].pc = "done"
    /\ req' = [req EXCEPT ![r] = Idle]
    /\ UNCHANGED <<cache, last, tomb, route, x_api_key>>

Next ==
    \/ ApiClear
    \/ \E r \in Requests :
        \/ Start(r)
        \/ LoadMarketsReturns(r)
        \/ LoadMarketsRaises(r)
        \/ FetchTickerReturns(r)
        \/ FetchTickerRaises(r)
        \/ FetchOhlcvReturns(r)
        \/ FetchOhlcvRaises(r)
        \/ Finish(r)

Spec == Init /\ [][Next]_vars


\* the continuation of request r after the fetch it awaits
Resume(r) ==
    \/ FetchTickerReturns(r) \/ FetchTickerRaises(r)
    \/ FetchOhlcvReturns(r) \/ FetchOhlcvRaises(r)

\* every awaited fetch_ticker / fetch_ohlcv call eventually returns or
\* raises and the event loop then resumes the coroutine that awaits it,
\* although other requests are served in between (strong fairness: the step
\* is not enabled while a response is being sent); a response that is ready
\* is sent
Fairness ==
    /\ \A r \in Requests : SF_vars(Resume(r))
    /\ WF_vars(\E r \in Requests : Finish(r))

SpecLive == Spec /\ Fairness

----------------------------------------------------------------------------
(* The data endpoints called without the configured API key *)

\* INVALID_HEADERS = {"X-API-Key": "WRONG_KEY"} of the tests
WRONG_KEY == <<"W", "R", "O", "N", "G", "_", "K", "E", "Y">>

\* a header value: a Python str
Str(s) == [t |-> "str", s |-> s]

\* the requests carry no X-API-Key header, or the wrong key; the endpoint
\* functions take no header parameter and no dependency reads one
InitAuth ==
    /\ cache = EmptyCache
    /\ last = NoCall
    /\ tomb = NoTombs
    /\ route \in {"realtime", "historical"}
    /\ x_api_key \in {None, Str(WRONG_KEY)}
    /\ req = [r \in 1..MaxRequests |-> Idle]

SpecAuth == InitAuth /\ [][Next]_vars

----------------------------------------------------------------------------
(* The key derivation of the handlers, applied to pairs of requests *)

\* symbols as markets list them, among them symbols that contain ':' (the
\* settle currency of a contract) and one that differs from another in case
KeySymbols ==
    {<<"A">>, <<"a">>, <<"A", ":", "1", "h">>,
     <<"A", ":", "1", "h", ":", "1">>}

\* values of the query parameter limit
KeyLimits == {1, 2, 11}

\* the arguments of the requests whose keys are compared
KeyInputs ==
    {[kind |-> "realtime", symbol |-> s, timeframe |-> <<>>, limit |-> 0] :
        s \in KeySymbols}
    \cup
    {[kind |-> "historical", symbol |-> s, timeframe |-> tf, limit |-> n] :
        s \in KeySymbols, tf \in ExchangeTimeframes, n \in KeyLimits}

\* a market set that lists every symbol compared
KeyMarkets == [t |-> "dict", keys |-> {Upper(s) : s \in KeySymbols}]

\* the cache_key the endpoint function derives for arg: the key it looks up
\* in an empty cache
DerivedKey(arg) ==
    Endpoint(Arrived(arg.kind), arg, KeyMarkets, EmptyCache, 0).req.cache_key

InitKeys ==
    /\ cache = EmptyCache
    /\ tomb = NoTombs
    /\ route = "keys"
    /\ x_api_key = None
    /\ req = [r \in 1..MaxRequests |-> Idle]
    /\ last \in {[op |-> "args", a |-> a, b |-> b, ka |-> <<>>, kb |-> <<>>] :
                    a \in KeyInputs, b \in KeyInputs}

\* the two endpoint functions derive their keys
DeriveKeys ==
    /\ last.op = "args"
    /\ last' = [last EXCEPT !.op = "keys", !.ka = DerivedKey(last.a),
                            !.kb = DerivedKey(last.b)]
    /\ UNCHANGED <<cache, tomb, route, x_api_key, req>>

SpecKeys == InitKeys /\ [][DeriveKeys]_vars

----------------------------------------------------------------------------
(* The health endpoint GET / (system_status), served over a cache that the *)
(* data endpoints have filled and that a caller can clear                   *)

\* what exchange.fetch_time() can return
ServerTimes == {1700000000, 1700000001}

\* the dict system_status returns; server_time_ms is int(time.time() * 1000)
\* and cache_ttl_seconds is CACHE.default_ttl_ms / 1000
StatusBody(server_time, current_time) ==
    [t |-> "dict", status |-> "online", server_time_ms |-> current_time,
     exchange_id |-> EXCHANGE_ID, exchange_status |-> "connected",
     exchange_time_ms |-> server_time,
     cache_ttl_seconds |-> default_ttl_ms \div 1000]

\* the except clause of system_status, for e raised in its try block;
\* e.args[0] raises IndexError on an exception without args
system_status_except(q, e) ==
    IF IsException(e)
    THEN IF e.args = <<>>
         THEN Propagate(q, Exc("IndexError", <<"m">>))
         ELSE Propagate(q, HTTPException(503, "exchange connection failed"))
    ELSE Propagate(q, e)

\* a request to / arrives: system_status runs to its await of fetch_status
HealthStart(r) ==
    /\ NoneDone
    /\ req[r].pc = "idle"
    /\ \A o \in 1..(r - 1) : req[o].pc # "idle"
    /\ req' = [req EXCEPT ![r] = [Arrived("health") EXCEPT
                                    !.pc = "fetch_status"]]
    /\ UNCHANGED <<cache, last, tomb, route, x_api_key>>

\* exchange.fetch_status() returns: on to the await of fetch_time
FetchStatusReturns(r) ==
    /\ NoneDone
    /\ req[r].pc = "fetch_status"
    /\ req' = [req EXCEPT ![r] = [req[r] EXCEPT !.pc = "fetch_time"]]
    /\ UNCHANGED <<cache, last, tomb, route, x_api_key>>

\* exchange.fetch_status() raises, or the request is cancelled
FetchStatusRaises(r) ==
    /\ NoneDone
    /\ req[r].pc = "fetch_status"
    /\ \E e \in UpstreamErrors :
        req' = [req EXCEPT ![r] = system_status_except(
                                    [req[r] EXCEPT !.up = e.class], e)]
    /\ UNCHANGED <<cache, last, tomb, route, x_api_key>>

\* exchange.fetch_time() returns: the handler returns its dict
FetchTimeReturns(r) ==
    /\ NoneDone
    /\ req[r].pc = "fetch_time"
    /\ \E server_time \in ServerTimes, current_time \in TimePoints :
        req' = [req EXCEPT ![r] = Return([req[r] EXCEPT !.up = "time"],
                                         StatusBody(server_time,
                                                    current_time))]
    /\ UNCHANGED <<cache, last, tomb, route, x_api_key>>

\* exchange.fetch_time() raises, or the request is cancelled
FetchTimeRaises(r) ==
    /\ NoneDone
    /\ req[r].pc = "fetch_time"
    /\ \E e \in UpstreamErrors :
        req' = [req EXCEPT ![r] = system_status_except(
                                    [req[r] EXCEPT !.up = e.class], e)]
    /\ UNCHANGED <<cache, last, tomb, route, x_api_key>>

\* cache contents the data endpoints leave: nothing, the market list, and
\* the market list with a ticker record
HealthCaches ==
    LET markets == CacheSet(EmptyCache, MarketsKey(EXCHANGE_ID),
                            [t |-> "dict", keys |-> {BTC_USDT}],
                            Seconds(60 * 60), 0).cache
    IN {EmptyCache, markets} \cup
       {CacheSet(markets, TickerKey(BTC_USDT), TickerResponse(tk), None,
                 timestamp).cache :
            tk \in Tickers(BTC_USDT), timestamp \in TimePoints}

InitHealth ==
    /\ cache \in HealthCaches
    /\ last = NoCall
    /\ tomb = NoTombs
    /\ route = "health"
    /\ x_api_key = None
    /\ req = [r \in 1..MaxRequests |-> Idle]

NextHealth ==
    \/ ApiClear
    \/ \E r \in Requests :
        \/ HealthStart(r)
        \/ FetchStatusReturns(r)
        \/ FetchStatusRaises(r)
        \/ FetchTimeReturns(r)
        \/ FetchTimeRaises(r)
        \/ Finish(r)

SpecHealth == InitHealth /\ [][NextHealth]_vars
----------------------------------------------------------------------------
(* Properties of the DataCacher API (SpecCache) *)

\* the step is a direct get of key k
IsGetStep(k) ==
    /\ last'.op = "get" /\ last'.key = k
    /\ <<cache, last, tomb>>' # <<cache, last, tomb>>

\* the step is a direct set of key k
IsSetStep(k) ==
    /\ last'.op = "set" /\ last'.key = k
    /\ <<cache, last, tomb>>' # <<cache, last, tomb>>

ExpectedTtlMs(ttl) == IF ttl = None THEN 5000 ELSE ttl.n * 1000

\* C7: a set of key k stores exactly <<clock, its ttl, its data>> whatever was
\* stored before and touches no other key; a get that follows a set returns
\* that set's data exactly while the clock is below that set's stored_at plus
\* that set's ttl, and never anything else than that data or None.
C7_Replacement ==
    [][/\ \A k \in ApiKeys : IsSetStep(k) =>
            /\ k \in DOMAIN cache'
            /\ cache'[k] = <<last'.at, ExpectedTtlMs(last'.ttl), last'.data>>
            /\ DOMAIN cache' = DOMAIN cache \cup {k}
            /\ \A j \in DOMAIN cache \ {k} : cache'[j] = cache[j]
       /\ \A k \in ApiKeys :
            (IsGetStep(k) /\ last.op = "set" /\ last.key = k) =>
                /\ last'.ret = last.data
                      <=> last'.at < last.at + ExpectedTtlMs(last.ttl)
                /\ last'.ret \in {last.data, None}
      ]_vars

\* C7 witness: a get returned v2 right after set(k, v2, ttl2) had replaced an
\* entry holding another value under another ttl
C7_Witness ==
    /\ last.op = "get" /\ last.prior # <<>>
    /\ last.prior[2] # last.data
    /\ last.prior[1] # ExpectedTtlMs(last.ttl)
    /\ last.ret = last.data


\* the step is a direct clear
IsClearStep ==
    /\ last'.op = "clear"
    /\ <<cache, last>>' # <<cache, last>>

\* C12: a clear leaves no entry, whatever the entries' ttl: after it a get
\* of any key at any clock value returns None, and the get that directly
\* follows a clear returns None.
C12_ClearTotality ==
    [][/\ IsClearStep =>
            /\ DOMAIN cache' = {}
            /\ \A k \in ApiKeys \cup DOMAIN cache, t \in TimePoints :
                  CacheGet(cache', k, t).ret = None
       /\ \A k \in ApiKeys :
            (IsGetStep(k) /\ last.op = "clear") =>
                (last'.ret = None /\ last'.found = "absent")
      ]_vars

\* C12 witness: set(k), clear(), get(k): the get returned None at a clock
\* value below the expiry of the entry the set had stored
C12_Witness ==
    /\ last.op = "get" /\ last.cleared
    /\ last.ret = None
    /\ last.set_at >= 0
    /\ last.at < last.set_at + ExpectedTtlMs(last.ttl)

\* C15: an entry leaves the cache only in a clear or in a get of its own key
\* that samples a clock value at or after its expiry; a get of k on a live
\* entry leaves the cache as it was, a get of k never adds an entry and
\* never touches the entry of another key, so an expired entry stays stored
\* through the gets and sets of other keys.
C15_EntryLifecycle ==
    [][/\ \A k \in DOMAIN cache :
            k \notin DOMAIN cache' =>
                \/ last'.op = "clear"
                \/ /\ last'.op = "get" /\ last'.key = k
                   /\ last'.at >= cache[k][1] + cache[k][2]
       /\ \A k \in ApiKeys : IsGetStep(k) =>
            /\ DOMAIN cache' \subseteq DOMAIN cache
            /\ \A j \in DOMAIN cache \ {k} :
                  j \in DOMAIN cache' /\ cache'[j] = cache[j]
            /\ (k \in DOMAIN cache /\ last'.at < cache[k][1] + cache[k][2])
                  => cache' = cache
      ]_vars

\* C15 witness: a get of one key sampled a clock value at or after the expiry
\* of the entry of another key, and that entry is still stored
C15_Witness ==
    /\ last.op = "get"
    /\ \E j \in DOMAIN cache :
          j # last.key /\ last.at >= cache[j][1] + cache[j][2]

----------------------------------------------------------------------------
(* Properties of the server (Spec) *)

\* request r has been entered and has not been answered yet, or is answered
InFlight(r) == req[r].pc # "idle"

\* the step ends request r, which was awaiting fetch_ticker or fetch_ohlcv,
\* because the call raised or the request was cancelled
FetchFails(r) ==
    /\ req[r].pc \in {"fetch_ticker", "fetch_ohlcv"}
    /\ req'[r].pc = "done"
    /\ req'[r].up \in {"ExchangeError", "Exception", "CancelledError"}

\* C2: the step in which a request's fetch_ticker or fetch_ohlcv raises, or
\* in which the request is cancelled while awaiting it, leaves the whole cache
\* as it was (so a get of the request's key answers after it what it answered
\* before it: a key that was a miss is still a miss), and the request ends
\* without a 200 status and without a body.
C2_FailedFetchWritesNothing ==
    [][\A r \in Requests : FetchFails(r) =>
          /\ cache' = cache
          /\ req'[r].status # 200
          /\ req'[r].body = None
          /\ \A t \in TimePoints :
                CacheGet(cache', req'[r].cache_key, t).ret
                    = CacheGet(cache, req'[r].cache_key, t).ret
      ]_vars

\* C2 witness: a request was cancelled while awaiting its fetch, and nothing
\* is stored under its key
C2_Witness ==
    \E r \in Requests :
        /\ req[r].pc = "done" /\ req[r].up = "CancelledError"
        /\ req[r].fetched /\ req[r].cache_key \notin DOMAIN cache

\* the step in which request r looks its key up in the cache
LookupStep(r) ==
    /\ req[r].pc \in {"idle", "load_markets"}
    /\ req'[r].pc # "idle"
    /\ req'[r].lookup # "none"

Key_ohlcv_BTC_USDT_1h_2 ==
    <<"o", "h", "l", "c", "v", ":", "B", "T", "C", "/", "U", "S", "D", "T",
      ":", "1", "h", ":", "2">>

\* request r asks for the 1h candles of BTC/USDT, in either letter case
AsksBtcUsdt1h(r) ==
    /\ InFlight(r) /\ req[r].arg.kind = "historical"
    /\ req[r].arg.symbol \in {BTC_USDT, btc_usdt}
    /\ req[r].arg.timeframe = <<"1", "h">> /\ req[r].arg.limit = 2

\* C4: historical requests for BTC/USDT and for btc/usdt with the same
\* timeframe and limit look up and store under the one key
\* ohlcv:BTC/USDT:1h:2; each is rejected as unknown only when the market set
\* lacks BTC/USDT, and each is answered from the cache, with the stored data
\* and without a fetch_ohlcv call, when that key holds a live entry.
C4_KeyDeterminism ==
    \A r \in Requests : AsksBtcUsdt1h(r) =>
        /\ req[r].cache_key \in {<<>>, Key_ohlcv_BTC_USDT_1h_2}
        /\ req[r].cache_key = <<>> =>
              /\ req[r].pc = "done" /\ req[r].status = 404
              /\ MarketsKey(EXCHANGE_ID) \in DOMAIN cache
              /\ BTC_USDT \notin cache[MarketsKey(EXCHANGE_ID)][3].keys
        /\ (req[r].pc = "done" /\ req[r].found = "live") =>
              /\ req[r].lookup = "hit" /\ ~req[r].fetched
              /\ req[r].body = cache[Key_ohlcv_BTC_USDT_1h_2][3]

\* C4 witness: a request for btc/usdt was answered from the entry stored
\* under ohlcv:BTC/USDT:1h:2
C4_Witness ==
    \E r \in Requests :
        /\ req[r].pc = "done" /\ req[r].arg.symbol = btc_usdt
        /\ req[r].arg.kind = "historical"
        /\ req[r].lookup = "hit" /\ req[r].status = 200
        /\ req[r].body = cache[Key_ohlcv_BTC_USDT_1h_2][3]
        /\ req[r].body.symbol = BTC_USDT

\* C5 (as stated): a historical request whose fetch_ohlcv returned zero
\* candles is answered 404.
C5_ZeroCandles404 ==
    \A r \in Requests :
        (req[r].pc = "done" /\ req[r].up = "no candles") => req[r].status = 404

\* the step rejects request r for its symbol (404) or its timeframe (400)
RejectStep(r) ==
    /\ req[r].pc \in {"idle", "load_markets"}
    /\ req'[r].pc = "done"
    /\ req'[r].detail \in {"symbol not found", "invalid timeframe"}

\* C6 (as stated): the step that rejects a request for its symbol or its
\* timeframe has performed no cache get or set that changed the cache.
C6_NoCacheAccessBeforeReject ==
    [][\A r \in Requests : RejectStep(r) => cache' = cache]_vars

\* C6 (amended): a request rejected for its symbol is answered 404 and one
\* rejected for its timeframe 400, without a get or set of any ticker or
\* ohlcv key (the request has looked no key up, and every entry other than
\* the market list is after the step what it was before) and without a
\* fetch_ticker or fetch_ohlcv call; only the market list is read, and loaded
\* and stored when missing, before the validation.
C6_ValidationPrecedesDataCache ==
    [][\A r \in Requests : RejectStep(r) =>
          LET q == req'[r] IN
          /\ q.status = IF q.detail = "symbol not found" THEN 404 ELSE 400
          /\ q.lookup = "none" /\ q.cache_key = <<>> /\ q.found = "none"
          /\ ~q.fetched /\ q.up = "none" /\ q.body = None
          /\ DOMAIN cache' \ {MarketsKey(EXCHANGE_ID)}
                = DOMAIN cache \ {MarketsKey(EXCHANGE_ID)}
          /\ \A j \in DOMAIN cache \ {MarketsKey(EXCHANGE_ID)} :
                cache'[j] = cache[j]
      ]_vars

\* C6 witness: a historical request was rejected for its timeframe while the
\* cache held an entry under the key of the same symbol with a valid
\* timeframe, and the market list
C6_Witness ==
    \E r \in Requests :
        /\ req[r].pc = "done" /\ req[r].detail = "invalid timeframe"
        /\ req[r].status = 400
        /\ Key_ohlcv_BTC_USDT_1h_2 \in DOMAIN cache
        /\ MarketsKey(EXCHANGE_ID) \in DOMAIN cache

C9_StatedStatus(q) ==
    IF q.detail = "symbol not found" THEN 404
    ELSE IF q.up = "no candles" THEN 404
    ELSE IF q.detail = "invalid timeframe" THEN 400
    ELSE IF q.up = "ExchangeError" THEN 400
    ELSE 500

\* request r has been answered with an error status
Failed(r) == req[r].pc = "done" /\ req[r].status \notin {0, 200}

StartsWith(key, prefix) ==
    Len(key) >= Len(prefix) /\ SubSeq(key, 1, Len(prefix)) = prefix

\* a get of key k at clock value t returns the stored record
Readable(k, t) == CacheGet(cache, k, t).ret = cache[k][3]

C10_WitnessOhlcv ==
    /\ Key_ohlcv_BTC_USDT_1h_2 \in DOMAIN cache
    /\ cache[Key_ohlcv_BTC_USDT_1h_2][1] = 0
    /\ Readable(Key_ohlcv_BTC_USDT_1h_2, 5000)
    /\ ~Readable(Key_ohlcv_BTC_USDT_1h_2, 3600000)

\* the keys of the ticker and ohlcv entries of dict c
DataKeys(c) == DOMAIN c \ {MarketsKey(EXCHANGE_ID)}

\* the symbols some market set lists
MarketSymbols == UNION {m.keys : m \in LoadMarketsResults}

\* every ticker entry is a TickerResponse stored under the key of its symbol;
\* every ohlcv entry is a HistoricalResponse stored under a key of its symbol
\* and timeframe, with at least one candle and count the number of candles
C16_Contents ==
    \A k \in DataKeys(cache) :
        LET d == cache[k][3] IN
        /\ d.t \in {"TickerResponse", "HistoricalResponse"}
        /\ d.symbol \in MarketSymbols
        /\ d.t = "TickerResponse" => k = TickerKey(d.symbol)
        /\ d.t = "HistoricalResponse" =>
              /\ d.timeframe \in ExchangeTimeframes
              /\ \E arg \in Inputs : k = OhlcvKey(d.symbol, d.timeframe,
                                                  arg.limit)
              /\ d.count >= 1 /\ d.count = Len(d.data)

\* a ticker or ohlcv entry appears or changes only in the step in which a
\* request that had validated its symbol (and timeframe), had missed on that
\* key and awaited its fetch receives the fetch's result and returns 200
\* with the data stored
C16_Writes ==
    \A k \in DataKeys(cache') :
        (k \notin DOMAIN cache \/ cache'[k] # cache[k]) =>
            \E r \in Requests :
                /\ req[r].pc \in {"fetch_ticker", "fetch_ohlcv"}
                /\ req[r].cache_key = k
                /\ req[r].lookup = "miss" /\ req[r].found = "gone"
                /\ req[r].symbol = Upper(req[r].arg.symbol)
                /\ req[r].symbol \in MarketSymbols
                /\ req[r].pc = "fetch_ohlcv" =>
                      req[r].arg.timeframe \in ExchangeTimeframes
                /\ req'[r].pc = "done" /\ req'[r].status = 200
                /\ req'[r].up \in {"ticker", "candles"}
                /\ cache'[k][3] = req'[r].body

\* C16: every ticker and ohlcv entry was written by a request that had
\* validated its symbol (and timeframe), had missed on that key and whose
\* fetch had succeeded; every cached historical record holds at least one
\* candle and its count is the number of its candles.
C16_EntriesFromSuccessfulMisses == []C16_Contents /\ [][C16_Writes]_vars

\* C16 witness: a historical request has just stored the two candles its
\* fetch returned, after a miss
C16_Witness ==
    \E r \in Requests :
        /\ req[r].pc = "done" /\ req[r].up = "candles"
        /\ req[r].lookup = "miss" /\ req[r].status = 200
        /\ cache[req[r].cache_key][3] = req[r].body
        /\ req[r].body.count = 2

\* request r awaits its fetch_ticker or fetch_ohlcv call
Fetching(r) == req[r].pc \in {"fetch_ticker", "fetch_ohlcv"}

\* the order of the steps of request r: it looks its key up only with a
\* validated symbol (and timeframe); it calls fetch only on a miss, and once;
\* from its fetch it goes nowhere but to its response; it returns 200 on a
\* hit without a fetch, or after its fetch with the data it has just stored;
\* a fetch that raises ends it with 400 or 500, or without response when it
\* was cancelled
C17_StepOrder(r) ==
    LET p == req[r] 
        q == req'[r] IN
    q # p =>
        /\ p.pc = "idle" =>
              q.pc \in {"load_markets", "fetch_ticker", "fetch_ohlcv", "done"}
        /\ p.pc = "load_markets" =>
              (q.pc \in {"fetch_ticker", "fetch_ohlcv", "done"}
                 /\ ~p.fetched)
        /\ Fetching(r) => (q.pc = "done" /\ q.cache_key = p.cache_key)
        /\ p.pc = "done" => q.pc = "idle"
        /\ (q.pc # "idle" /\ q.lookup # "none") =>
              /\ q.symbol = Upper(q.arg.symbol)
              /\ q.symbol \in MarketSymbols
              /\ q.arg.kind = "historical" =>
                    q.arg.timeframe \in ExchangeTimeframes
        /\ q.pc \in {"fetch_ticker", "fetch_ohlcv"} =>
              (q.lookup = "miss" /\ q.fetched /\ p.pc # q.pc)
        /\ (q.pc = "done" /\ q.status = 200) =>
              \/ q.lookup = "hit" /\ ~q.fetched /\ ~Fetching(r)
              \/ /\ q.lookup = "miss" /\ q.fetched /\ Fetching(r)
                 /\ cache'[q.cache_key][3] = q.body
        /\ (Fetching(r) /\ q.pc = "done" /\ q.status # 200) =>
              \/ q.status \in {400, 500} /\ q.body = None
              \/ q.up = "CancelledError" /\ q.detail = "cancelled"

\* C17: every request follows the order validate, look up, then return on a
\* hit or fetch once and store and return, or reject; a fetch that fails
\* ends the same request with an error response; and when the fetch calls
\* return or raise, a request that awaits its fetch is eventually answered.
C17_RequestStateMachine ==
    /\ [][\A r \in Requests : C17_StepOrder(r)]_vars
    /\ \A r \in Requests : Fetching(r) ~> (req[r].pc = "done")

\* C17 witness: a request whose fetch raised was answered 500
C17_Witness ==
    \E r \in Requests :
        /\ req[r].pc = "done" /\ req[r].fetched
        /\ req[r].up = "Exception" /\ req[r].status = 500

\* C14: two requests can await their fetch for the same key at once, each
\* after a miss; and a request that has fetched and returns 200 leaves under
\* its key exactly the entry of its own set, holding its data and the clock
\* value its set sampled, whatever another request stored there since its
\* lookup: the set that runs last decides the entry.
C14_LastWriterWins ==
    /\ \A r, o \in Requests :
          (r # o /\ Fetching(r) /\ Fetching(o)) =>
              (req[r].lookup = "miss" /\ req[o].lookup = "miss"
                 /\ req[r].fetched /\ req[o].fetched)
    /\ \A r \in Requests :
          (req[r].pc = "done" /\ req[r].status = 200
             /\ req[r].lookup = "miss") =>
              LET k == req[r].cache_key IN
              /\ k \in DOMAIN cache
              /\ cache[k][1] = req[r].stored_at
              /\ cache[k][3] = req[r].body
              /\ req[r].stored_at \in TimePoints

\* C14 witness: a request that had found nothing live under its key has
\* stored its record over the different record another request stored
\* meanwhile, and the cache holds the later one
C14_Witness ==
    \E r \in Requests :
        /\ req[r].pc = "done" /\ req[r].status = 200
        /\ req[r].lookup = "miss" /\ req[r].found = "gone"
        /\ req[r].replaced = "other"
        /\ cache[req[r].cache_key][3] = req[r].body

\* request r arrives in this step
Arrives(r) == req[r].pc = "idle" /\ req'[r].pc # "idle"

\* C19: a request that arrives while the market list stored is falsy (an
\* empty dict) calls load_markets, whether the entry is live or not, and
\* when load_markets returns its result is stored over the entry; the
\* dependency awaits load_markets only after a get that returned a falsy
\* value.
C19_TruthinessDecidesHit ==
    [][\A r \in Requests :
          LET mk == MarketsKey(EXCHANGE_ID) IN
          /\ (Arrives(r) /\ mk \in DOMAIN cache /\ cache[mk][3].keys = {})
                => (req'[r].pc = "load_markets" /\ ~req'[r].fetched)
          /\ (Arrives(r) /\ req'[r].pc = "load_markets")
                => ~Truthy(req'[r].dep_markets)
          /\ (/\ req[r].pc = "load_markets" /\ req'[r].pc # "load_markets"
              /\ req'[r].detail \notin {"failed to load markets",
                                         "cancelled"})
                => (mk \in DOMAIN cache'
                      /\ cache'[mk][1] \in TimePoints
                      /\ cache'[mk][2] = 60 * 60 * 1000)
      ]_vars

\* C19 witness: a request awaits load_markets although its get returned the
\* live entry of the market list, an empty dict, which is still stored
C19_Witness ==
    \E r \in Requests :
        /\ req[r].pc = "load_markets"
        /\ req[r].dep_markets = [t |-> "dict", keys |-> {}]
        /\ MarketsKey(EXCHANGE_ID) \in DOMAIN cache

----------------------------------------------------------------------------
(* Properties of the key derivation (SpecKeys) *)

\* what a request's key is to depend on: the endpoint, the uppercased
\* symbol, the timeframe and the limit
Normalized(arg) == [arg EXCEPT !.symbol = Upper(arg.symbol)]

\* C18: two requests that differ in endpoint, uppercased symbol, timeframe or
\* limit derive different keys, also when a symbol contains ':', and no
\* derived key equals the key of the market list.
C18_KeyInjective ==
    last.op = "keys" =>
        /\ Normalized(last.a) # Normalized(last.b) => last.ka # last.kb
        /\ Normalized(last.a) = Normalized(last.b) => last.ka = last.kb
        /\ last.ka # <<>> /\ last.kb # <<>>
        /\ last.ka # MarketsKey(EXCHANGE_ID)
        /\ last.kb # MarketsKey(EXCHANGE_ID)

\* C18 witness: the keys were derived for two historical requests, the
\* symbol of one being the symbol of the other followed by ':' and the
\* other's timeframe
C18_Witness ==
    /\ last.op = "keys"
    /\ last.a.kind = "historical" /\ last.b.kind = "historical"
    /\ last.a.symbol = <<"A", ":", "1", "h">> /\ last.b.symbol = <<"A">>
    /\ last.b.timeframe = <<"1", "h">>
    /\ last.ka # last.kb

----------------------------------------------------------------------------
(* Properties of the health endpoint (SpecHealth) *)

\* the step is a step of request r in system_status
HealthStep(r) ==
    /\ req'[r] # req[r]
    /\ \/ req[r].pc \in {"fetch_status", "fetch_time"}
       \/ req'[r].pc = "fetch_status"

\* C11 (as stated): no step of system_status changes the cache, a request
\* is answered 200 only after fetch_status and fetch_time both returned, and
\* a request whose fetch_status or fetch_time raised an Exception is
\* answered 503.
C11_HealthBypassesCache ==
    [][\A r \in Requests : HealthStep(r) =>
          /\ cache' = cache
          /\ (req'[r].pc = "done" /\ req'[r].status = 200) =>
                (req[r].pc = "fetch_time" /\ req'[r].up = "time")
          /\ (req'[r].pc = "done"
                /\ req'[r].up \in {"ExchangeError", "Exception"}) =>
                req'[r].status = 503
      ]_vars

\* the part of C11 that holds: no step of system_status changes the cache,
\* and a request is answered 200 only after both fetches returned
HealthLeavesCache ==
    [][\A r \in Requests : HealthStep(r) =>
          /\ cache' = cache
          /\ (req'[r].pc = "done" /\ req'[r].status = 200) =>
                (req[r].pc = "fetch_time" /\ req'[r].up = "time")
      ]_vars

----------------------------------------------------------------------------
(* Properties of the unauthenticated requests (SpecAuth) *)

\* C13 (as stated): a request to /realtime or /historical that carries no
\* X-API-Key header, or a wrong key, is answered 403 with the detail
\* 'Invalid API Key' and never with a body.
C13_Rejected403 ==
    \A r \in Requests :
        (x_api_key \in {None, Str(WRONG_KEY)} /\ req[r].pc = "done"
            /\ req[r].detail # "cancelled") =>
            /\ req[r].status = 403
            /\ req[r].detail = "Invalid API Key"
            /\ req[r].body = None
====
